---- MODULE Spec2Model ----
(***************************************************************************)
(* A model of library/junos_get_table.py: one invocation of main() as a    *)
(* state machine, and juniper_items_to_list_of_dicts as an operator.       *)
(*                                                                         *)
(* Collaborators outside the file are modelled by their documented         *)
(* behaviour:                                                              *)
(*  - AnsibleModule.fail_json / exit_json print the result and call        *)
(*    sys.exit: they raise SystemExit, which is a BaseException and not an *)
(*    Exception, so "except Exception" does not catch it;                  *)
(*  - Device.open(), open(file_name), yaml.load / FactoryLoader.load,      *)
(*    data.get() and logging.basicConfig(filename=...) either succeed or   *)
(*    raise, chosen nondeterministically;                                  *)
(*  - Device.close() and data.items() return normally; data.items() is a   *)
(*    list of (table_key, [(field, value), ...]) tuples.                   *)
(***************************************************************************)
EXTENDS Integers, Sequences, FiniteSets, TLC

VARIABLES
    pc,          \* where main() stands
    HAS_PYEZ,    \* the module-level flag set by the import block
    args,        \* module.params
    dev,         \* the Device connection: "unbound", "open" or "closed"
    globals,     \* the module's global namespace: name -> kind of object
    loaded,      \* the table names the definition file defined
    items,       \* what data.items() returns once data.get() has run
    resource,    \* the local variable resource
    fields,      \* the field names the table's view declares
    list_of_resources, \* the value juniper_items_to_list_of_dicts returned
    trace        \* the calls main() made on its collaborators, in order

vars == <<pc, HAS_PYEZ, args, dev, globals, loaded, items, resource, fields,
          list_of_resources, trace>>

----------------------------------------------------------------------------
(* Bounds of the model *)

MaxItems == 2
MaxPairs == 2

----------------------------------------------------------------------------
(* Values *)

None == "None"

Range(s) == {s[i] : i \in DOMAIN s}

\* s.endswith(suffix), on strings kept as sequences of characters
EndsWith(s, suffix) ==
    /\ Len(s) >= Len(suffix)
    /\ SubSeq(s, Len(s) - Len(suffix) + 1, Len(s)) = suffix

YmlExtension == <<".", "y", "m", "l">>

\* file names a task may pass: lldp.yml, ntclldp.yaml, lldp, yml
FileNames ==
    { <<"l", "l", "d", "p", ".", "y", "m", "l">>,
      <<"n", "t", "c", "l", "l", "d", "p", ".", "y", "a", "m", "l">>,
      <<"l", "l", "d", "p">>,
      <<"y", "m", "l">> }

TABLE_PATH == <<"o", "p", "/">>

CHOICES == {"list_of_dicts", "juniper_items"}

\* names a task may ask for
TableNames == {"LLDPNeighborTable", "NTCNeighborTable", "main", "CHOICES"}

\* names a definition file may define
FileTableNames == {"LLDPNeighborTable", "main"}

\* the namespace main() runs in before any file is loaded: the module's own
\* globals, none of which is a Table class
ModuleGlobals ==
    [n \in {"main", "CHOICES", "juniper_items_to_list_of_dicts"} |->
        IF n = "CHOICES" THEN "list" ELSE "function"]

\* os.path.join(args['path'], args['file'])
file_name == args.path \o args.file

----------------------------------------------------------------------------
(* Raw items *)

FieldPairs ==
    { <<"neighbor", "vmx2">>, <<"neighbor", "vmx3">>,
      <<"local_interface", "fxp0">> }

TableKeys == {"fxp0", "ge-0/0/2"}

SeqsUpTo(S, n) == UNION {[1..k -> S] : k \in 0..n}

\* one element of data.items(): the tuple (table_key, table_fields)
Item(table_key, table_fields) ==
    [table_key |-> table_key, table_fields |-> table_fields]

RawItems ==
    {Item(k, f) : k \in TableKeys, f \in SeqsUpTo(FieldPairs, MaxPairs)}

Schemas == {{"neighbor"}, {"neighbor", "local_interface"}}

\* the items a device answers with in a run of main()
DeviceItems ==
    { Item("fxp0", <<<<"local_interface", "fxp0">>, <<"neighbor", "vmx2">>>>),
      Item("fxp0", <<<<"local_interface", "fxp0">>, <<"neighbor", "vmx3">>>>),
      Item("ge-0/0/2", <<<<"neighbor", "vmx2">>>>) }

----------------------------------------------------------------------------
(* juniper_items_to_list_of_dicts *)

EmptyDict == [k \in {} |-> None]

\* the assignment rebinds temp to a dictionary of the one pair
DictSetReplace(temp, normalized_key, normalized_value) ==
    [k \in {normalized_key} |-> normalized_value]

\* temp[normalized_key] = normalized_value
DictSet(temp, normalized_key, normalized_value) ==
    [k \in DOMAIN temp \cup {normalized_key} |->
        IF k = normalized_key THEN normalized_value ELSE temp[k]]

\* the inner loop: for normalized_key, normalized_value in table_fields
RECURSIVE FieldsToDict(_, _)
FieldsToDict(table_fields, temp) ==
    IF table_fields = <<>> THEN temp
    ELSE FieldsToDict(Tail(table_fields),
                      DictSet(temp, Head(table_fields)[1], Head(table_fields)[2]))

\* list_of_resources.insert(0, temp)
AppendResourceFront(acc, table_key, temp) == <<temp>> \o acc

\* list_of_resources.append(temp)
AppendResource(acc, table_key, temp) == Append(acc, temp)

\* the outer loop: for table_key, table_fields in data.items()
RECURSIVE ItemsLoop(_, _)
ItemsLoop(rest, acc) ==
    IF rest = <<>> THEN acc
    ELSE ItemsLoop(Tail(rest),
                   AppendResource(acc, Head(rest).table_key,
                                  FieldsToDict(Head(rest).table_fields,
                                               EmptyDict)))

\* an empty table yields one empty record
juniper_items_or_one_empty(data_items) ==
    IF data_items = <<>> THEN <<EmptyDict>> ELSE ItemsLoop(data_items, <<>>)

juniper_items_to_list_of_dicts(data_items) == ItemsLoop(data_items, <<>>)

----------------------------------------------------------------------------
(* Exceptions and reporting *)

\* isinstance(exc, Exception): SystemExit derives from BaseException only
IsException(exc) == exc # "SystemExit"

\* one call on a collaborator: what was called, the message and keywords it
\* was given, and the exception it raised (None when it returned)
Event(op, msg, kw, raised) == [op |-> op, msg |-> msg, kw |-> kw, raised |-> raised]

\* a call that returns
Call(op) == Event(op, <<>>, EmptyDict, None)

\* a call that raises exc
Raise(op, exc) == Event(op, <<>>, EmptyDict, exc)

\* module.fail_json(msg=..., **kw): reports the failure and raises SystemExit
FailJson(msg, kw) == Event("fail_json", msg, kw, "SystemExit")

\* module.exit_json(resource=...): reports the result and raises SystemExit
ExitJson(r) == Event("exit_json", <<>>, [resource |-> r], "SystemExit")

\* lines 227-231: the handler of the outer try, entered with the exception exc
\* raised by the last of the calls before; "except Exception" closes the device
\* and reports str(exc); any other exception leaves main() as it is
OuterHandler(before, exc) ==
    IF IsException(exc)
    THEN /\ trace' = trace \o before \o
                     << Call("dev.close"),
                        FailJson(<<"Uncaught exception - please report: ", exc>>,
                                 EmptyDict) >>
         /\ dev' = "closed"
         /\ pc' = "exited"
    ELSE /\ trace' = trace \o before
         /\ dev' = dev
         /\ pc' = "exited"

----------------------------------------------------------------------------
(* main() *)

Init ==
    /\ pc = "start"
    /\ HAS_PYEZ \in BOOLEAN
    /\ args \in [host : {"vmx1"}, logfile : {None, "junos.log"},
                 file : FileNames, path : {TABLE_PATH},
                 table : TableNames, response_type : CHOICES]
    /\ dev = "unbound"
    /\ globals = ModuleGlobals
    /\ loaded = {}
    /\ items = <<>>
    /\ resource = <<>>
    /\ fields = {"neighbor", "local_interface"}
    /\ list_of_resources = <<>>
    /\ trace = <<>>

\* lines 180-181
CheckPyEZ ==
    /\ pc = "start"
    /\ IF ~HAS_PYEZ
       THEN /\ trace' = Append(trace,
                   FailJson(<<"junos-eznc >= 1.2.2 is required for this module">>,
                            EmptyDict))
            /\ pc' = "exited"
       ELSE /\ trace' = trace
            /\ pc' = "check_file"
    /\ UNCHANGED <<HAS_PYEZ, args, dev, globals, loaded, items, resource,
                   fields, list_of_resources>>

\* the extension is checked only after the log file is configured
CheckFileFallsThrough ==
    /\ pc = "check_file"
    /\ trace' = IF ~EndsWith(args.file, YmlExtension)
                THEN Append(trace,
                       FailJson(<<"file must end with .yml extension">>, EmptyDict))
                ELSE trace
    /\ pc' = "logging"
    /\ UNCHANGED <<HAS_PYEZ, args, dev, globals, loaded, items, resource,
                   fields, list_of_resources>>

\* lines 188-189
CheckFile ==
    /\ pc = "check_file"
    /\ IF ~EndsWith(args.file, YmlExtension)
       THEN /\ trace' = Append(trace,
                   FailJson(<<"file must end with .yml extension">>, EmptyDict))
            /\ pc' = "exited"
       ELSE /\ trace' = trace
            /\ pc' = "logging"
    /\ UNCHANGED <<HAS_PYEZ, args, dev, globals, loaded, items, resource,
                   fields, list_of_resources>>

\* lines 191-198: the log file is configured when one is given
ConfigureLogging ==
    /\ pc = "logging"
    /\ trace' = IF args.logfile # None
                THEN Append(trace, Call("logging.basicConfig"))
                ELSE trace
    /\ pc' = "connect"
    /\ UNCHANGED <<HAS_PYEZ, args, dev, globals, loaded, items, resource,
                   fields, list_of_resources>>

\* lines 191-193: logging.basicConfig opens the log file and raises IOError
\* when it cannot; no handler encloses the call
ConfigureLoggingRaises ==
    /\ pc = "logging"
    /\ args.logfile # None
    /\ trace' = Append(trace, Raise("logging.basicConfig", "IOError"))
    /\ pc' = "crashed"
    /\ UNCHANGED <<HAS_PYEZ, args, dev, globals, loaded, items, resource,
                   fields, list_of_resources>>

\* lines 199-201 and 208: Device(...).open() returns the open device
Connect ==
    /\ pc = "connect"
    /\ trace' = Append(trace, Call("Device.open"))
    /\ dev' = "open"
    /\ resource' = <<>>
    /\ pc' = "load"
    /\ UNCHANGED <<HAS_PYEZ, args, globals, loaded, items, fields,
                   list_of_resources>>

\* the connect failure is reported but main() goes on to line 208
ConnectRaisesFallsThrough ==
    /\ pc = "connect"
    /\ \E cause \in {"ConnectAuthError", "ConnectTimeoutError"} :
          trace' = trace \o
              << Raise("Device.open", cause),
                 FailJson(<<"unable to connect to ", args.host, ": ", cause>>,
                          EmptyDict) >>
    /\ pc' = "load"
    /\ UNCHANGED <<HAS_PYEZ, args, dev, globals, loaded, items, resource,
                   fields, list_of_resources>>

\* lines 199-205: Device(...).open() raises
ConnectRaises ==
    /\ pc = "connect"
    /\ \E cause \in {"ConnectAuthError", "ConnectTimeoutError"} :
          trace' = trace \o
              << Raise("Device.open", cause),
                 FailJson(<<"unable to connect to ", args.host, ": ", cause>>,
                          EmptyDict) >>
    /\ pc' = "exited"
    /\ UNCHANGED <<HAS_PYEZ, args, dev, globals, loaded, items, resource,
                   fields, list_of_resources>>

\* lines 210-213: the file is read and its tables are merged into globals()
LoadTables ==
    /\ pc = "load"
    /\ \E tables \in SUBSET FileTableNames :
          /\ loaded' = tables
          /\ globals' = [n \in DOMAIN globals \cup tables |->
                            IF n \in tables THEN "Table" ELSE globals[n]]
    /\ trace' = trace \o << Call("open"), Call("FactoryLoader.load") >>
    /\ pc' = "table"
    /\ UNCHANGED <<HAS_PYEZ, args, dev, items, resource, fields,
                   list_of_resources>>

\* lines 211-215 and 227: open(file_name) raises IOError; the inner handler
\* calls fail_json, whose SystemExit passes through the outer try
LoadTablesIOError ==
    /\ pc = "load"
    /\ OuterHandler(<< Raise("open", "IOError"),
                       FailJson(<<"Unable to find file: ", file_name>>, EmptyDict) >>,
                    "SystemExit")
    /\ UNCHANGED <<HAS_PYEZ, args, globals, loaded, items, resource, fields,
                   list_of_resources>>

\* lines 212-213 and 227-231: yaml.load or FactoryLoader.load raises
LoadTablesRaises ==
    /\ pc = "load"
    /\ OuterHandler(<< Call("open"), Raise("FactoryLoader.load", "YAMLError") >>,
                    "YAMLError")
    /\ UNCHANGED <<HAS_PYEZ, args, globals, loaded, items, resource, fields,
                   list_of_resources>>

\* lines 216-221: data = globals()[args['table']](dev)
GetTable ==
    /\ pc = "table"
    /\ IF args.table \notin DOMAIN globals
       THEN \* KeyError: the inner handler calls fail_json
            OuterHandler(
                << Raise("Table", "KeyError"),
                   FailJson(<<"Unable to find Table in provided yaml file">>,
                            [table |-> args.table, file |-> file_name]) >>,
                "SystemExit")
       ELSE IF globals[args.table] # "Table"
       THEN \* calling a function with one argument too many, or a list
            OuterHandler(<< Raise("Table", "TypeError") >>, "TypeError")
       ELSE /\ trace' = Append(trace, Call("Table"))
            /\ dev' = dev
            /\ pc' = "get"
    /\ UNCHANGED <<HAS_PYEZ, args, globals, loaded, items, resource, fields,
                   list_of_resources>>

\* line 222: data.get() fills the table
Get ==
    /\ pc = "get"
    /\ items' \in SeqsUpTo(DeviceItems, MaxItems)
    /\ trace' = Append(trace, Call("data.get"))
    /\ pc' = "convert"
    /\ UNCHANGED <<HAS_PYEZ, args, dev, globals, loaded, resource, fields,
                   list_of_resources>>

\* lines 222 and 227-231: data.get() raises
GetRaises ==
    /\ pc = "get"
    /\ OuterHandler(<< Raise("data.get", "RpcError") >>, "RpcError")
    /\ UNCHANGED <<HAS_PYEZ, args, globals, loaded, items, resource, fields,
                   list_of_resources>>

\* the conversion is applied whatever response_type is
ConvertAlwaysDicts ==
    /\ pc = "convert"
    /\ resource' = juniper_items_to_list_of_dicts(items)
    /\ trace' = Append(trace, Call("data.items"))
    /\ pc' = "close"
    /\ UNCHANGED <<HAS_PYEZ, args, dev, globals, loaded, items, fields,
                   list_of_resources>>

\* lines 223-226
Convert ==
    /\ pc = "convert"
    /\ resource' = IF args.response_type = "list_of_dicts"
                   THEN juniper_items_to_list_of_dicts(items)
                   ELSE items
    /\ trace' = Append(trace, Call("data.items"))
    /\ pc' = "close"
    /\ UNCHANGED <<HAS_PYEZ, args, dev, globals, loaded, items, fields,
                   list_of_resources>>

\* lines 233-235
CloseAndExit ==
    /\ pc = "close"
    /\ dev' = "closed"
    /\ trace' = trace \o << Call("dev.close"), ExitJson(resource) >>
    /\ pc' = "exited"
    /\ UNCHANGED <<HAS_PYEZ, args, globals, loaded, items, resource, fields,
                   list_of_resources>>

Next ==
    \/ CheckPyEZ
    \/ CheckFile
    \/ ConfigureLogging
    \/ ConfigureLoggingRaises
    \/ Connect
    \/ ConnectRaises
    \/ LoadTables
    \/ LoadTablesIOError
    \/ LoadTablesRaises
    \/ GetTable
    \/ GetRaises
    \/ Get
    \/ Convert
    \/ CloseAndExit

Spec == Init /\ [][Next]_vars

----------------------------------------------------------------------------
(* juniper_items_to_list_of_dicts applied to any list of raw items *)

InitNorm ==
    /\ pc = "called"
    /\ HAS_PYEZ = TRUE
    /\ args = [host |-> "vmx1", logfile |-> None,
               file |-> <<"l", "l", "d", "p", ".", "y", "m", "l">>,
               path |-> TABLE_PATH, table |-> "LLDPNeighborTable",
               response_type |-> "list_of_dicts"]
    /\ dev = "open"
    /\ globals = ModuleGlobals
    /\ loaded = {}
    /\ items \in SeqsUpTo(RawItems, MaxItems)
    /\ resource = <<>>
    /\ fields \in Schemas
    /\ list_of_resources = <<>>
    /\ trace = <<>>

\* lines 141-159
Normalize ==
    /\ pc = "called"
    /\ list_of_resources' = juniper_items_to_list_of_dicts(items)
    /\ pc' = "returned"
    /\ UNCHANGED <<HAS_PYEZ, args, dev, globals, loaded, items, resource,
                   fields, trace>>

NextNorm == Normalize

SpecNorm == InitNorm /\ [][NextNorm]_vars

----------------------------------------------------------------------------
(* Reading the trace *)

Terminated == pc \in {"exited", "crashed"}

IsOutcome(e) == e.op \in {"fail_json", "exit_json"}

Outcomes == SelectSeq(trace, IsOutcome)

Called(op) == \E i \in DOMAIN trace : trace[i].op = op

Returned(op) == \E i \in DOMAIN trace : trace[i] = Call(op)

Raised(op) == \E i \in DOMAIN trace : trace[i].op = op /\ trace[i].raised # None

LastEvent == trace[Len(trace)]

CloseBefore(j) == \E k \in 1..(j - 1) : trace[k].op = "dev.close"

----------------------------------------------------------------------------
(* The connection and the reported outcome *)

\* C1: whenever Device(...).open() succeeded, every outcome main() reports
\* (fail_json or exit_json) comes after a dev.close(), on every exit path.
C1_CloseBeforeEveryOutcome ==
    dev # "unbound" =>
        \A j \in DOMAIN trace : IsOutcome(trace[j]) => CloseBefore(j)

\* C2: an invocation that has ended reported exactly one outcome, no invocation
\* reports two, and exit_json is never reached after a call that raised.
C2_ExactlyOneOutcome ==
    /\ Len(Outcomes) <= 1
    /\ Terminated => Len(Outcomes) = 1
    /\ \A j \in DOMAIN trace :
          trace[j].op = "exit_json" =>
              \A i \in 1..(j - 1) : trace[i].raised = None

\* C3: when the loaded file does not define the requested table, the
\* invocation ends with the table-not-found failure, whatever the name is.
C3_MissingTableIsNotFound ==
    (Terminated /\ Returned("FactoryLoader.load") /\ args.table \notin loaded) =>
        /\ pc = "exited"
        /\ LastEvent = FailJson(<<"Unable to find Table in provided yaml file">>,
                                [table |-> args.table, file |-> file_name])

\* C4: when Device(...).open() raises, the invocation ends with the connect
\* failure, the definition file is never opened or loaded, no table is
\* instantiated, data.get() is never issued and no connection is left open.
C4_ConnectFailure ==
    Raised("Device.open") =>
        /\ pc = "exited"
        /\ dev = "unbound"
        /\ Len(Outcomes) = 1
        /\ LastEvent.op = "fail_json"
        /\ \E i \in DOMAIN trace :
              /\ trace[i].op = "Device.open"
              /\ LastEvent.msg = <<"unable to connect to ", args.host, ": ",
                                   trace[i].raised>>
        /\ ~Called("open")
        /\ ~Called("FactoryLoader.load")
        /\ ~Called("Table")
        /\ ~Called("data.get")
        /\ ~Called("dev.close")

C4_Witness == Raised("Device.open") /\ pc = "exited"

----------------------------------------------------------------------------
(* Records and items *)

KeysOf(table_fields) == {table_fields[j][1] : j \in DOMAIN table_fields}

\* rec maps every key of table_fields to the value of the last pair with it
IsDictOf(rec, table_fields) ==
    /\ \A j \in DOMAIN table_fields : table_fields[j][1] \in DOMAIN rec
    /\ \A k \in DOMAIN rec :
          \E j \in DOMAIN table_fields :
              /\ table_fields[j] = <<k, rec[k]>>
              /\ \A j2 \in (j + 1)..Len(table_fields) : table_fields[j2][1] # k

C7_OneRecordPerItemInOrder ==
    pc = "returned" =>
        /\ Len(list_of_resources) = Len(items)
        /\ \A i \in 1..Len(items) :
              IsDictOf(list_of_resources[i], items[i].table_fields)

C7_Witness ==
    /\ pc = "returned"
    /\ Len(items) = 2
    /\ items[1].table_key = items[2].table_key
    /\ list_of_resources[1] # list_of_resources[2]

\* C8: exit_json carries data.items() itself in juniper_items mode and its
\* conversion in list_of_dicts mode; the calls made and the closing of the
\* connection do not depend on the mode.
C8_ResponseTypeSelectsShape ==
    \A j \in DOMAIN trace :
        trace[j].op = "exit_json" =>
            LET r == trace[j].kw.resource
                ops == [i \in DOMAIN trace |-> trace[i].op]
                log == IF args.logfile # None
                       THEN <<"logging.basicConfig">> ELSE <<>>
            IN /\ args.response_type = "juniper_items" => r = items
               /\ args.response_type = "list_of_dicts" =>
                     /\ Len(r) = Len(items)
                     /\ \A i \in 1..Len(items) : IsDictOf(r[i], items[i].table_fields)
               /\ ops = log \o <<"Device.open", "open", "FactoryLoader.load",
                                 "Table", "data.get", "data.items",
                                 "dev.close", "exit_json">>
               /\ dev = "closed"

C8_Witness ==
    /\ pc = "exited"
    /\ args.response_type = "juniper_items"
    /\ Len(items) = 2
    /\ LastEvent = ExitJson(items)

\* C9: every failure reported for a connect error, an unreadable file, a
\* missing table or an exception caught by the outer handler names the
\* failing stage and the requested table, and every exception raised is
\* followed by a fail_json.
StageFailures ==
    { "unable to connect to ", "Unable to find file: ",
      "Unable to find Table in provided yaml file",
      "Uncaught exception - please report: " }

StageCalls ==
    {"Device.open", "open", "FactoryLoader.load", "Table", "data.get", "data.items"}

FailureStage(e) ==
    CASE e.msg[1] = "unable to connect to "                       -> "connect"
      [] e.msg[1] = "Unable to find file: "                       -> "load"
      [] e.msg[1] = "Unable to find Table in provided yaml file"  -> "table"
      [] OTHER                                                    -> None

CarriesTable(e) ==
    \/ args.table \in Range(e.msg)
    \/ "table" \in DOMAIN e.kw /\ e.kw["table"] = args.table

C9_FailuresCarryStageAndTable ==
    /\ \A j \in DOMAIN trace :
          (trace[j].op = "fail_json" /\ trace[j].msg[1] \in StageFailures) =>
              /\ FailureStage(trace[j]) # None
              /\ CarriesTable(trace[j])
    /\ Terminated =>
          \A i \in DOMAIN trace :
              (trace[i].op \in StageCalls /\ trace[i].raised # None) =>
                  \E j \in (i + 1)..Len(trace) : trace[j].op = "fail_json"

\* C10: a successful data.get() on a table with zero items ends, in
\* list_of_dicts mode, with dev.close() and then exit_json(resource=[]).
C10_EmptyTableIsSuccess ==
    ( /\ Terminated
      /\ Returned("data.get")
      /\ items = <<>>
      /\ args.response_type = "list_of_dicts" ) =>
        /\ pc = "exited"
        /\ dev = "closed"
        /\ Outcomes = << ExitJson(<<>>) >>
        /\ Len(trace) >= 2
        /\ trace[Len(trace) - 1] = Call("dev.close")
        /\ LastEvent = ExitJson(<<>>)

C10_Witness ==
    /\ pc = "exited"
    /\ Returned("data.get")
    /\ items = <<>>
    /\ args.response_type = "list_of_dicts"
    /\ LastEvent.op = "exit_json"

====
